---------------------------- MODULE Spec2Model ----------------------------
(***************************************************************************)
(* A model of the Python-facing Othello session of src/src/lib.rs          *)
(* (PyOthelloGame): one DefaultGame value plus the move history, driven by *)
(* add_stone and ai_move.  The rules engine (othello_game) and the move    *)
(* selection strategies (othello_ai) are crates whose code is not part of  *)
(* src/; they are modelled from spec.md sections 3 and 4.                  *)
(***************************************************************************)
EXTENDS Integers, Sequences, FiniteSets, TLC

VARIABLES
    game,          \* PyOthelloGame.game: [board, next_turn]
    move_history,  \* PyOthelloGame.move_history: sequence of u8 codes
    last_call,     \* observation: the last call made, its argument and result
    pre_game,      \* observation: game before the last call
    pre_history,   \* observation: move_history before the last call
    codec          \* a value on its way through u8_to_move and move_to_u8

vars == <<game, move_history, last_call, pre_game, pre_history, codec>>

---------------------------------------------------------------------------
(* Bounds of the model.                                                    *)

\* calls are explored until the history has grown by this many codes
MaxMoves == 2

\* greatest search depth handed to ai_move as a positive strength
MaxStrength == 1

\* greatest search depth AlphaBetaAI is run with on its own
MaxDepth == 3

---------------------------------------------------------------------------
(* The rules engine: Colour, Board, Move, capture scan, valid_moves, apply *)

Black == "Black"
White == "White"
Empty == "Empty"

Colour == {Black, White}

\* side length of the board
N == 8

Opponent(c) == IF c = Black THEN White ELSE Black

OnBoard(r, c) == r >= 0 /\ r < N /\ c >= 0 /\ c < N

\* board.get(r, c); the board is stored row-major, index r * 8 + c
Get(board, r, c) == board[r * N + c]

Move(player, row, col) == [player |-> player, row |-> row, col |-> col]

Dirs == {<<dr, dc>> : dr \in {-1, 0, 1}, dc \in {-1, 0, 1}} \ {<<0, 0>>}

RECURSIVE Walk(_, _, _, _, _, _, _)
\* walk outward from (r, c) in direction (dr, dc) over opponent stones: the
\* stones walked over when the walk is closed by a stone of colour, nothing
\* when it leaves the board or meets an empty cell first
Walk(board, colour, r, c, dr, dc, run) ==
    IF ~OnBoard(r, c) THEN {}
    ELSE IF Get(board, r, c) = Opponent(colour)
         THEN Walk(board, colour, r + dr, c + dc, dr, dc, run \cup {r * N + c})
         ELSE IF Get(board, r, c) = colour THEN run ELSE {}

\* the cells captured in one direction d from (row, col)
RunInDir(board, colour, row, col, d) ==
    Walk(board, colour, row + d[1], col + d[2], d[1], d[2], {})

\* the capture set of placing colour at (row, col): indexes of the stones
\* to flip; empty when the cell is occupied
LinesToCapture(board, colour, row, col) ==
    IF Get(board, row, col) # Empty THEN {}
    ELSE UNION {RunInDir(board, colour, row, col, d) : d \in Dirs}

IsLegal(board, colour, row, col) == LinesToCapture(board, colour, row, col) # {}

\* game.valid_moves(colour): the legal placements of colour in row-major order
ValidMoves(g, colour) ==
    LET legal(m) == IsLegal(g.board, colour, m.row, m.col)
    IN  SelectSeq([i \in 1..(N * N) |-> Move(colour, (i - 1) \div N, (i - 1) % N)],
                  legal)

\* the membership test that finds every move
Contains_Always(moves, m) == TRUE

\* valid_moves.contains(&m)
Contains(moves, m) == \E k \in 1..Len(moves) : moves[k] = m

\* game.apply(m): place the stone, flip the capture set, hand the turn over
\* (@@ <<>> stores the new board cell by cell, as the array it is)
Apply(g, m) ==
    LET flips == LinesToCapture(g.board, m.player, m.row, m.col)
    IN  [board |-> [i \in 0..(N * N - 1) |->
                      IF i = m.row * N + m.col \/ i \in flips
                      THEN m.player ELSE g.board[i]] @@ <<>>,
         next_turn |-> Opponent(m.player)]

\* DefaultGame::new(): the four centre stones, Black to move
NewGame ==
    [board |-> [i \in 0..(N * N - 1) |->
                  CASE i = 3 * N + 3 \/ i = 4 * N + 4 -> White
                    [] i = 3 * N + 4 \/ i = 4 * N + 3 -> Black
                    [] OTHER -> Empty],
     next_turn |-> Black]

\* game.scores(): (black count, white count)
CountOf(board, colour) == Cardinality({i \in 0..(N * N - 1) : board[i] = colour})

Scores(g) == <<CountOf(g.board, Black), CountOf(g.board, White)>>

---------------------------------------------------------------------------
(* The move selection strategies: RandomAI and AlphaBetaAI                 *)

\* Option<Move>: the result of choose_move
SomeMove(m) == [tag |-> "Some", mv |-> m]
NoMove == [tag |-> "None", mv |-> Move(Black, 0, 0)]

\* the static evaluation: stone differential seen from perspective
Evaluate(board, perspective) ==
    CountOf(board, perspective) - CountOf(board, Opponent(perspective))

\* values below and above every evaluation, standing for -oo and +oo
NegInf == -65
PosInf == 65

MaxOf(a, b) == IF a >= b THEN a ELSE b
MinOf(a, b) == IF a <= b THEN a ELSE b

RECURSIVE Minimax(_, _, _, _, _)
RECURSIVE MinimaxLoop(_, _, _, _, _, _, _, _)

\* depth-limited minimax with alpha-beta pruning, valued for root
Minimax(state, depth, alpha, beta, root) ==
    IF depth = 0 THEN Evaluate(state.board, root)
    ELSE LET moves == ValidMoves(state, state.next_turn)
         IN  IF moves # <<>>
             THEN MinimaxLoop(state, moves, 1, depth, alpha, beta, root,
                              IF state.next_turn = root THEN NegInf ELSE PosInf)
             ELSE IF ValidMoves(state, Opponent(state.next_turn)) = <<>>
                  THEN Evaluate(state.board, root)
                  ELSE Minimax([state EXCEPT !.next_turn = Opponent(state.next_turn)],
                               depth - 1, alpha, beta, root)

RECURSIVE MinimaxLoop_PruneOnAlpha(_, _, _, _, _, _, _, _)
\* the loop with the maximizing node cut off against alpha instead of beta
MinimaxLoop_PruneOnAlpha(state, moves, i, depth, alpha, beta, root, value) ==
    IF i > Len(moves) THEN value
    ELSE LET child == Minimax(Apply(state, moves[i]), depth - 1, alpha, beta, root)
         IN  IF state.next_turn = root
             THEN LET v == MaxOf(value, child)
                  IN  IF v >= alpha THEN v
                      ELSE MinimaxLoop_PruneOnAlpha(state, moves, i + 1, depth,
                                                    MaxOf(alpha, v), beta, root, v)
             ELSE LET v == MinOf(value, child)
                  IN  IF v <= alpha THEN v
                      ELSE MinimaxLoop_PruneOnAlpha(state, moves, i + 1, depth,
                                                    alpha, MinOf(beta, v), root, v)

\* the candidates moves[i..] of one node, after the running value
MinimaxLoop(state, moves, i, depth, alpha, beta, root, value) ==
    IF i > Len(moves) THEN value
    ELSE LET child == Minimax(Apply(state, moves[i]), depth - 1, alpha, beta, root)
         IN  IF state.next_turn = root
             THEN LET v == MaxOf(value, child)
                  IN  IF v >= beta THEN v
                      ELSE MinimaxLoop(state, moves, i + 1, depth,
                                       MaxOf(alpha, v), beta, root, v)
             ELSE LET v == MinOf(value, child)
                  IN  IF v <= alpha THEN v
                      ELSE MinimaxLoop(state, moves, i + 1, depth,
                                       alpha, MinOf(beta, v), root, v)

RECURSIVE BestFrom(_, _, _, _, _, _)
\* the root's scan of its candidates in order: a candidate replaces the best
\* so far only with a strictly greater score
BestFrom(state, moves, i, max_depth, best, best_score) ==
    IF i > Len(moves) THEN best
    ELSE LET score == Minimax(Apply(state, moves[i]), max_depth - 1,
                              NegInf, PosInf, state.next_turn)
         IN  IF score > best_score
             THEN BestFrom(state, moves, i + 1, max_depth, SomeMove(moves[i]), score)
             ELSE BestFrom(state, moves, i + 1, max_depth, best, best_score)

\* AlphaBetaAI { max_depth }.choose_move(state)
AlphaBetaChoose(max_depth, state) ==
    BestFrom(state, ValidMoves(state, state.next_turn), 1, max_depth, NoMove, NegInf)

\* RandomAI.choose_move(state): every result the random source can give
RandomChoose(state) ==
    LET moves == ValidMoves(state, state.next_turn)
    IN  IF moves = <<>> THEN {NoMove}
        ELSE {SomeMove(moves[k]) : k \in 1..Len(moves)}

---------------------------------------------------------------------------
(* The move codec of lib.rs                                                *)

\* width of the u8 move code
U8 == 256

\* move_to_u8 numbering the cells from 0, without the + 1
move_to_u8_ZeroBased(mov) ==
    IF mov.tag = "Some" THEN (mov.mv.row * 8 + mov.mv.col) % U8 ELSE 0

\* move_to_u8(mov) for mov an Option<Move>
move_to_u8(mov) ==
    IF mov.tag = "Some" THEN (mov.mv.row * 8 + mov.mv.col + 1) % U8 ELSE 0

\* u8_to_move with the code used as the cell index, without the - 1
u8_to_move_OffByOne(move_repr, player) ==
    CASE move_repr = 0 -> [tag |-> "None", mv |-> Move(player, 0, 0)]
      [] move_repr >= 1 /\ move_repr <= 64 ->
            LET index == move_repr
                row == index \div 8
                col == index % 8
            IN  IF row >= 0 /\ row < 8 /\ col >= 0 /\ col < 8
                THEN [tag |-> "Some", mv |-> Move(player, row, col)]
                ELSE [tag |-> "Err", mv |-> Move(player, 0, 0)]
      [] OTHER -> [tag |-> "Err", mv |-> Move(player, 0, 0)]

\* u8_to_move with every code outside 1..=64 read as a pass
u8_to_move_OtherIsPass(move_repr, player) ==
    CASE move_repr >= 1 /\ move_repr <= 64 ->
            LET index == move_repr - 1
                row == index \div 8
                col == index % 8
            IN  [tag |-> "Some", mv |-> Move(player, row, col)]
      [] OTHER -> [tag |-> "None", mv |-> Move(player, 0, 0)]

\* u8_to_move(move_repr, player): Err, Ok(None) or Ok(Some(move))
u8_to_move(move_repr, player) ==
    CASE move_repr = 0 -> [tag |-> "None", mv |-> Move(player, 0, 0)]
      [] move_repr >= 1 /\ move_repr <= 64 ->
            LET index == move_repr - 1
                row == index \div 8
                col == index % 8
            IN  IF row >= 0 /\ row < 8 /\ col >= 0 /\ col < 8
                THEN [tag |-> "Some", mv |-> Move(player, row, col)]
                ELSE [tag |-> "Err", mv |-> Move(player, 0, 0)]
      [] OTHER -> [tag |-> "Err", mv |-> Move(player, 0, 0)]

---------------------------------------------------------------------------
(* PyOthelloGame                                                           *)

\* a call's result: for add_stone tag is "true", "false" or "ValueError";
\* for ai_move tag is "Some" (with the code), "None" or "ValueError"
Ret(tag, code) == [tag |-> tag, code |-> code]

\* a call's argument: a u8 code, or an Option<i32> strength
Arg(present, value) == [present |-> present, value |-> value]

\* the strategy a call invoked, if any
NoAI == [kind |-> "none", max_depth |-> 0]

\* a call that leaves the session as it was
Unchanged(s, ret) ==
    [game |-> s.game, move_history |-> s.move_history, ret |-> ret]

\* the placement arm pushing the code onto the history twice
add_stone_place_PushTwice(s, valid_moves, potential_move, move_repr) ==
    IF Contains(valid_moves, potential_move)
    THEN [game |-> Apply(s.game, potential_move),
          move_history |-> Append(Append(s.move_history, move_repr), move_repr),
          ret |-> Ret("true", 0)]
    ELSE Unchanged(s, Ret("false", 0))

\* the placement arm applying the move without recording it
add_stone_place_NoRecord(s, valid_moves, potential_move, move_repr) ==
    IF Contains(valid_moves, potential_move)
    THEN [game |-> Apply(s.game, potential_move),
          move_history |-> s.move_history,
          ret |-> Ret("true", 0)]
    ELSE Unchanged(s, Ret("false", 0))

\* the Some arm of add_stone: a placement request
add_stone_place(s, valid_moves, potential_move, move_repr) ==
    IF Contains(valid_moves, potential_move)
    THEN [game |-> Apply(s.game, potential_move),
          move_history |-> Append(s.move_history, move_repr),
          ret |-> Ret("true", 0)]
    ELSE Unchanged(s, Ret("false", 0))

\* the pass arm accepting a pass whether or not a move is available
add_stone_pass_Always(s, valid_moves) ==
    [game |-> [s.game EXCEPT !.next_turn = Opponent(s.game.next_turn)],
     move_history |-> Append(s.move_history, 0),
     ret |-> Ret("true", 0)]

\* the pass arm switching the turn before it checks for available moves
add_stone_pass_FlipOnReject(s, valid_moves) ==
    IF valid_moves = <<>>
    THEN [game |-> [s.game EXCEPT !.next_turn = Opponent(s.game.next_turn)],
          move_history |-> Append(s.move_history, 0),
          ret |-> Ret("true", 0)]
    ELSE [game |-> [s.game EXCEPT !.next_turn = Opponent(s.game.next_turn)],
          move_history |-> s.move_history,
          ret |-> Ret("false", 0)]

\* the pass arm refusing every pass
add_stone_pass_Never(s, valid_moves) == Unchanged(s, Ret("false", 0))

\* the None arm of add_stone: a pass request
add_stone_pass(s, valid_moves) ==
    IF valid_moves = <<>>
    THEN [game |-> [s.game EXCEPT !.next_turn = Opponent(s.game.next_turn)],
          move_history |-> Append(s.move_history, 0),
          ret |-> Ret("true", 0)]
    ELSE Unchanged(s, Ret("false", 0))

\* the match of add_stone on the session s = [game, move_history], given the
\* valid_moves collected for the player to move: the session after the call
\* and the call's result
add_stone_on(s, valid_moves, move_repr) ==
    LET current_player == s.game.next_turn
        decoded == u8_to_move(move_repr, current_player)
    IN  CASE decoded.tag = "Err" -> Unchanged(s, Ret("ValueError", 0))
          [] decoded.tag = "Some" ->
               add_stone_place(s, valid_moves, decoded.mv, move_repr)
          [] decoded.tag = "None" -> add_stone_pass(s, valid_moves)

\* add_stone(move_repr)
add_stone(s, move_repr) ==
    add_stone_on(s, ValidMoves(s.game, s.game.next_turn), move_repr)

\* the strategy selection with an absent strength read as depth 1
ai_dispatch_AbsentIsAlphaBeta(strength) ==
    IF strength.present
    THEN IF strength.value > 0
         THEN [kind |-> "AlphaBetaAI", max_depth |-> strength.value]
         ELSE [kind |-> "RandomAI", max_depth |-> 0]
    ELSE [kind |-> "AlphaBetaAI", max_depth |-> 1]

\* the strategy selection with every positive strength read as depth 1
ai_dispatch_DepthOne(strength) ==
    IF strength.present
    THEN IF strength.value > 0
         THEN [kind |-> "AlphaBetaAI", max_depth |-> 1]
         ELSE [kind |-> "RandomAI", max_depth |-> 0]
    ELSE [kind |-> "RandomAI", max_depth |-> 0]

\* the strategy ai_move builds for a strength
ai_dispatch(strength) ==
    IF strength.present
    THEN IF strength.value > 0
         THEN [kind |-> "AlphaBetaAI", max_depth |-> strength.value]
         ELSE [kind |-> "RandomAI", max_depth |-> 0]
    ELSE [kind |-> "RandomAI", max_depth |-> 0]

\* ai.choose_move(&self.game): the results the strategy can give
choose_move(ai, g) ==
    IF ai.kind = "AlphaBetaAI" THEN {AlphaBetaChoose(ai.max_depth, g)}
    ELSE RandomChoose(g)

\* the forced pass that is not recorded when the game is over
ai_move_pass_NoRecordAtEnd(s) ==
    LET current_player == s.game.next_turn
        passed == [s.game EXCEPT !.next_turn = Opponent(current_player)]
    IN  IF ValidMoves(passed, passed.next_turn) = <<>>
        THEN [game |-> passed, move_history |-> s.move_history,
              ret |-> Ret("None", 0), ai |-> NoAI]
        ELSE [game |-> passed, move_history |-> Append(s.move_history, 0),
              ret |-> Ret("Some", 0), ai |-> NoAI]

\* the forced pass that reports None whether or not the opponent can move
ai_move_pass_AlwaysNone(s) ==
    LET current_player == s.game.next_turn
        passed == [s.game EXCEPT !.next_turn = Opponent(current_player)]
    IN  [game |-> passed, move_history |-> Append(s.move_history, 0),
         ret |-> Ret("None", 0), ai |-> NoAI]

\* the forced pass that leaves the turn where it was when the game is over
ai_move_pass_NoFlipAtEnd(s) ==
    LET current_player == s.game.next_turn
        passed == [s.game EXCEPT !.next_turn = Opponent(current_player)]
    IN  IF ValidMoves(passed, passed.next_turn) = <<>>
        THEN [game |-> s.game, move_history |-> Append(s.move_history, 0),
              ret |-> Ret("None", 0), ai |-> NoAI]
        ELSE [game |-> passed, move_history |-> Append(s.move_history, 0),
              ret |-> Ret("Some", 0), ai |-> NoAI]

\* ai_move when the player to move has no valid move: the forced pass
ai_move_pass(s) ==
    LET current_player == s.game.next_turn
        passed == [s.game EXCEPT !.next_turn = Opponent(current_player)]
    IN  IF ValidMoves(passed, passed.next_turn) = <<>>
        THEN [game |-> passed, move_history |-> Append(s.move_history, 0),
              ret |-> Ret("None", 0), ai |-> NoAI]
        ELSE [game |-> passed, move_history |-> Append(s.move_history, 0),
              ret |-> Ret("Some", 0), ai |-> NoAI]

\* the applied move recorded as the code of its row alone
ai_move_apply_RecordRow(s, valid_moves, strength, chosen) ==
    IF chosen.tag = "Some" /\ Contains(valid_moves, chosen.mv)
    THEN [game |-> Apply(s.game, chosen.mv),
          move_history |-> Append(s.move_history, chosen.mv.row * 8 + 1),
          ret |-> Ret("Some", chosen.mv.row * 8 + 1),
          ai |-> ai_dispatch(strength)]
    ELSE [game |-> s.game, move_history |-> s.move_history,
          ret |-> Ret("ValueError", 0), ai |-> ai_dispatch(strength)]

\* ai_move when the player to move has valid moves: the move the invoked
\* strategy chose is checked, applied and recorded
ai_move_apply(s, valid_moves, strength, chosen) ==
    IF chosen.tag = "Some"
    THEN IF Contains(valid_moves, chosen.mv)
         THEN [game |-> Apply(s.game, chosen.mv),
               move_history |->
                  Append(s.move_history, move_to_u8(SomeMove(chosen.mv))),
               ret |-> Ret("Some", move_to_u8(SomeMove(chosen.mv))),
               ai |-> ai_dispatch(strength)]
         ELSE [game |-> s.game, move_history |-> s.move_history,
               ret |-> Ret("ValueError", 0), ai |-> ai_dispatch(strength)]
    ELSE [game |-> s.game, move_history |-> s.move_history,
          ret |-> Ret("ValueError", 0), ai |-> ai_dispatch(strength)]

\* ai_move(strength) on the session s, given the valid_moves collected for
\* the player to move and the move the invoked strategy chose
ai_move_on(s, valid_moves, strength, chosen) ==
    IF valid_moves = <<>> THEN ai_move_pass(s)
    ELSE ai_move_apply(s, valid_moves, strength, chosen)

\* the scores getter giving the black count in both places
scores_BlackTwice(g) == <<Scores(g)[1], Scores(g)[1]>>

\* the scores getter: the tuple (black_score, white_score)
scores(g) == <<Scores(g)[1], Scores(g)[2]>>

\* is_game_over looking at the player to move only
is_game_over_CurrentOnly(g) == ValidMoves(g, g.next_turn) = <<>>

\* is_game_over with the negation of opponent_has_moves left out
is_game_over_NotNegated(g) ==
    LET current_player_has_moves == ValidMoves(g, g.next_turn) # <<>>
    IN  IF current_player_has_moves THEN FALSE
        ELSE ValidMoves(g, Opponent(g.next_turn)) # <<>>

\* is_game_over
is_game_over(g) ==
    LET current_player_has_moves == ValidMoves(g, g.next_turn) # <<>>
    IN  IF current_player_has_moves THEN FALSE
        ELSE LET opponent_has_moves == ValidMoves(g, Opponent(g.next_turn)) # <<>>
             IN  ~opponent_has_moves

\* PyOthelloGame::new()
NewSession == [game |-> NewGame, move_history |-> <<>>]

---------------------------------------------------------------------------
(* The state machine                                                       *)

RECURSIVE ReplayChecked(_, _, _)
\* the session reached from s by submitting the codes of h in order through
\* add_stone, with accepted telling whether every call so far returned true
ReplayChecked(s, h, accepted) ==
    IF h = <<>>
    THEN [game |-> s.game, move_history |-> s.move_history, accepted |-> accepted]
    ELSE LET r == add_stone(s, Head(h))
             next == [game |-> r.game, move_history |-> r.move_history]
         IN  IF r.ret = Ret("true", 0)
             THEN ReplayChecked(next, Tail(h), accepted)
             ELSE ReplayChecked(next, Tail(h), FALSE)

\* the session reached from s by submitting the codes of h through add_stone
Replay(s, h) ==
    LET r == ReplayChecked(s, h, TRUE)
    IN  [game |-> r.game, move_history |-> r.move_history]

\* recorded openings from which the calls are explored: the new session,
\* games one move short of a forced pass of Black, of a forced pass of White
\* and of the end of the game, and a game played to its end
StartHistories ==
    { <<>>,
      <<20, 19, 18, 10, 38, 17, 1>>,
      <<20, 35, 42, 12, 11, 10, 2, 22, 9, 49>>,
      <<20, 19, 18, 12, 5, 44, 52, 21>>,
      <<20, 19, 18, 12, 5, 44, 52, 21, 30>> }

\* the argument values add_stone is called with: every code, and codes
\* outside 0..=64
MoveCodes == 0..64 \cup {65, 100, 255}

\* the argument values ai_move is called with: absent, negative, zero and
\* the positive depths
Strengths == {Arg(FALSE, 0)} \cup {Arg(TRUE, v) : v \in (-1)..MaxStrength}

Current == [game |-> game, move_history |-> move_history]

\* no value is on its way through the codec
CodecIdle ==
    [stage |-> "idle", player |-> Black, origin_code |-> 0, origin_mov |-> NoMove,
     code |-> 0, mov |-> NoMove]

Init ==
    \E h \in StartHistories :
       LET s == Replay(NewSession, h)
       IN  /\ s.move_history = h
           /\ game = s.game
           /\ move_history = s.move_history
           /\ last_call = [op |-> "new", arg |-> Arg(FALSE, 0),
                           ret |-> Ret("new", 0), ai |-> NoAI]
           /\ pre_game = s.game
           /\ pre_history = s.move_history
           /\ codec = CodecIdle

\* the opening the run started from: the longest recorded opening that the
\* history extends
StartLen ==
    LET fits == {Len(h) : h \in {x \in StartHistories :
                                   /\ Len(move_history) >= Len(x)
                                   /\ SubSeq(move_history, 1, Len(x)) = x}}
    IN  CHOOSE n \in fits : \A m \in fits : m <= n

\* the number of codes recorded since the opening the run started from
Grown == Len(move_history) - StartLen

AddStone ==
    /\ Grown < MaxMoves
    /\ \E valid_moves \in {ValidMoves(game, game.next_turn)} :
       \E move_repr \in MoveCodes :
          LET r == add_stone_on(Current, valid_moves, move_repr)
          IN  /\ game' = r.game
              /\ move_history' = r.move_history
              /\ last_call' = [op |-> "add_stone", arg |-> Arg(TRUE, move_repr),
                               ret |-> r.ret, ai |-> NoAI]
              /\ pre_game' = game
              /\ pre_history' = move_history
              /\ UNCHANGED codec

\* one call of ai_move, with its argument drawn from strengths
AiCall(strengths) ==
    /\ \E valid_moves \in {ValidMoves(game, game.next_turn)} :
       \E strength \in strengths :
       \E chosen \in (IF valid_moves = <<>> THEN {NoMove}
                      ELSE choose_move(ai_dispatch(strength), game)) :
          LET r == ai_move_on(Current, valid_moves, strength, chosen)
          IN  /\ game' = r.game
              /\ move_history' = r.move_history
              /\ last_call' = [op |-> "ai_move", arg |-> strength,
                               ret |-> r.ret, ai |-> r.ai]
              /\ pre_game' = game
              /\ pre_history' = move_history
              /\ UNCHANGED codec

AiMove == Grown < MaxMoves /\ AiCall(Strengths)

Next == AddStone \/ AiMove

Spec == Init /\ [][Next]_vars

\* the sessions whose recorded histories are replayed: the same calls in any
\* mix, from the same openings
SpecReplay == Init /\ [][Next]_vars

---------------------------------------------------------------------------
(* Play driven by ai_move alone, from recorded games five placements short *)
(* of a full board, until ai_move returns None.                            *)

EndgameHistories ==
    { <<20, 35, 44, 21, 26, 43, 30, 39, 51, 38, 14, 12, 23, 50, 4, 59, 46, 3,
        40, 16, 53, 55, 42, 52, 61, 47, 2, 17, 49, 62, 45, 7, 31, 54, 13, 22,
        48, 32, 6, 5, 63, 41, 8, 60, 27, 64, 25, 33, 15, 18, 58, 24, 9, 19, 57>>,
      <<38, 44, 51, 30, 23, 31, 39, 58, 21, 32, 35, 48, 53, 14, 24, 45, 40, 19,
        22, 27, 20, 43, 42, 13, 52, 61, 56, 46, 12, 11, 62, 34, 10, 54, 60, 26,
        7, 6, 5, 50, 59, 63, 3, 9, 25, 18, 41, 16, 49, 57, 1, 64, 2, 15, 33>> }

InitPlay ==
    \E h \in EndgameHistories :
       LET s == Replay(NewSession, h)
       IN  /\ s.move_history = h
           /\ game = s.game
           /\ move_history = s.move_history
           /\ last_call = [op |-> "new", arg |-> Arg(FALSE, 0),
                           ret |-> Ret("new", 0), ai |-> NoAI]
           /\ pre_game = s.game
           /\ pre_history = s.move_history
           /\ codec = CodecIdle

\* the driver's loop: ai_move is called again until it has returned None
AiPlay ==
    /\ ~(last_call.op = "ai_move" /\ last_call.ret.tag = "None")
    /\ AiCall(Strengths)

NextPlay == AiPlay

\* the driver keeps calling: a call that can be made is made
SpecAiPlay == InitPlay /\ [][NextPlay]_vars /\ WF_vars(AiPlay)

---------------------------------------------------------------------------
(* The search on its own: from every position of the recorded openings,    *)
(* one call of ai_move at each depth.                                      *)

\* the strengths the search is run with: 0 selects RandomAI, d >= 1 selects
\* AlphaBetaAI { max_depth: d }
SearchStrengths == {Arg(TRUE, v) : v \in 0..MaxDepth}

InitSearch ==
    \E h \in StartHistories :
    \E k \in 0..Len(h) :
       LET s == Replay(NewSession, SubSeq(h, 1, k))
       IN  /\ s.move_history = SubSeq(h, 1, k)
           /\ game = s.game
           /\ move_history = s.move_history
           /\ last_call = [op |-> "new", arg |-> Arg(FALSE, 0),
                           ret |-> Ret("new", 0), ai |-> NoAI]
           /\ pre_game = s.game
           /\ pre_history = s.move_history
           /\ codec = CodecIdle

AiSearch == last_call.op = "new" /\ AiCall(SearchStrengths)

NextSearch == AiSearch

SpecSearch == InitSearch /\ [][NextSearch]_vars

---------------------------------------------------------------------------
(* The codec on its own: every u8 code is decoded and the result encoded,  *)
(* every move is encoded and the result decoded.                           *)

\* every Option<Move> with its cell on the board
CodecMoves(player) ==
    {NoMove} \cup {SomeMove(Move(player, r, c)) : r \in 0..(N - 1), c \in 0..(N - 1)}

InitCodec ==
    /\ game = NewGame
    /\ move_history = <<>>
    /\ last_call = [op |-> "new", arg |-> Arg(FALSE, 0),
                    ret |-> Ret("new", 0), ai |-> NoAI]
    /\ pre_game = NewGame
    /\ pre_history = <<>>
    /\ \E player \in Colour :
          \/ \E c \in 0..(U8 - 1) :
                codec = [stage |-> "code", player |-> player, origin_code |-> c,
                         origin_mov |-> NoMove, code |-> c, mov |-> NoMove]
          \/ \E m \in CodecMoves(player) :
                codec = [stage |-> "move", player |-> player, origin_code |-> 0,
                         origin_mov |-> m, code |-> 0, mov |-> m]

\* u8_to_move applied to the code in hand
CodecDecode ==
    /\ codec.stage \in {"code", "move_encoded"}
    /\ codec' = [codec EXCEPT
                   !.stage = IF codec.stage = "code" THEN "decoded"
                             ELSE "move_decoded",
                   !.mov = u8_to_move(codec.code, codec.player)]
    /\ UNCHANGED <<game, move_history, last_call, pre_game, pre_history>>

\* move_to_u8 applied to the move in hand
CodecEncode ==
    /\ codec.stage \in {"move", "decoded"}
    /\ codec.mov.tag # "Err"
    /\ codec' = [codec EXCEPT
                   !.stage = IF codec.stage = "move" THEN "move_encoded"
                             ELSE "encoded",
                   !.code = move_to_u8(codec.mov)]
    /\ UNCHANGED <<game, move_history, last_call, pre_game, pre_history>>

NextCodec == CodecDecode \/ CodecEncode

SpecCodec == InitCodec /\ [][NextCodec]_vars

---------------------------------------------------------------------------
(* Properties.  Each is stated over the observation of the last call:      *)
(* pre_game and pre_history are the session the call was made on, game and *)
(* move_history the session it left.                                       *)

PreMover == pre_game.next_turn

\* the cell a placement code names
CodeRow(c) == (c - 1) \div 8
CodeCol(c) == (c - 1) % 8

\* colour has a legal placement on board
HasLegal(board, colour) ==
    \E r \in 0..(N - 1), c \in 0..(N - 1) : IsLegal(board, colour, r, c)

\* board is `before` with colour placed at (row, col) and exactly the capture
\* set of that placement flipped
PlacedAndFlipped(before, board, colour, row, col) ==
    LET captured == LinesToCapture(before, colour, row, col)
    IN  /\ board[row * N + col] = colour
        /\ \A i \in 0..(N * N - 1) \ {row * N + col} :
              board[i] = IF i \in captured THEN colour ELSE before[i]

SessionUnchanged == game = pre_game /\ move_history = pre_history

IsAddStone == last_call.op = "add_stone"
IsAiMove == last_call.op = "ai_move"
IsPlacementCode == last_call.arg.value >= 1 /\ last_call.arg.value <= 64

\* C1: add_stone(c) with c in 1..64 returns true exactly when the cell
\* row = (c-1)/8, col = (c-1) mod 8 is a legal placement for the player to
\* move; when it returns true the board is the old board with that cell set
\* to the mover's colour and exactly the capture set flipped, the turn goes
\* to the mover's opponent and c is appended to the history.
C1_PlacementAccepted ==
    (IsAddStone /\ IsPlacementCode) =>
        LET c == last_call.arg.value
            legal == IsLegal(pre_game.board, PreMover, CodeRow(c), CodeCol(c))
        IN  /\ last_call.ret.tag \in {"true", "false"}
            /\ (last_call.ret.tag = "true") <=> legal
            /\ last_call.ret.tag = "true" =>
                  /\ PlacedAndFlipped(pre_game.board, game.board, PreMover,
                                      CodeRow(c), CodeCol(c))
                  /\ game.next_turn = Opponent(PreMover)
                  /\ move_history = Append(pre_history, c)

\* an accepted placement that captures in more than one cell
C1_Witness ==
    /\ IsAddStone /\ IsPlacementCode
    /\ last_call.ret.tag = "true"
    /\ Cardinality(LinesToCapture(pre_game.board, PreMover,
                                  CodeRow(last_call.arg.value),
                                  CodeCol(last_call.arg.value))) >= 2

\* C2: add_stone(0) returns true if and only if the player to move has no
\* legal placement; when accepted the turn goes to the opponent, the board
\* is unchanged and the pass code 0 is appended to the history.
C2_PassAccepted ==
    (IsAddStone /\ last_call.arg.value = 0) =>
        /\ last_call.ret.tag \in {"true", "false"}
        /\ (last_call.ret.tag = "true") <=> ~HasLegal(pre_game.board, PreMover)
        /\ last_call.ret.tag = "true" =>
              /\ game.next_turn = Opponent(PreMover)
              /\ game.board = pre_game.board
              /\ move_history = Append(pre_history, 0)

\* an accepted pass after which the opponent has a move
C2_Witness ==
    /\ IsAddStone /\ last_call.arg.value = 0
    /\ last_call.ret.tag = "true"
    /\ HasLegal(game.board, game.next_turn)

\* C3: whenever add_stone returns false, the board, the turn and the history
\* are those before the call.
C3_RejectedUnchanged ==
    (IsAddStone /\ last_call.ret.tag = "false") => SessionUnchanged

\* a pass refused because the player to move has a move
C3_Witness ==
    /\ IsAddStone /\ last_call.arg.value = 0
    /\ last_call.ret.tag = "false"
    /\ HasLegal(pre_game.board, PreMover)

\* White is to move on the session the call was made on, White has no legal
\* placement and Black has one
PreWhiteStuck ==
    /\ PreMover = White
    /\ ~HasLegal(pre_game.board, White)
    /\ HasLegal(pre_game.board, Black)

\* C4 as claimed: with White to move, White without a legal placement and
\* Black with one, add_stone(0) is rejected with the session unchanged and
\* every placement code legal for Black is accepted.
C4_Original ==
    (IsAddStone /\ PreWhiteStuck) =>
        /\ last_call.arg.value = 0 =>
              last_call.ret.tag = "false" /\ SessionUnchanged
        /\ (/\ IsPlacementCode
            /\ IsLegal(pre_game.board, Black, CodeRow(last_call.arg.value),
                       CodeCol(last_call.arg.value))) =>
              last_call.ret.tag = "true"

\* C4 amended: with White to move, White without a legal placement and Black
\* with one, add_stone(0) is accepted (the turn goes to Black, the board is
\* unchanged, 0 is appended) and every placement code 1..64, those legal for
\* Black included, is rejected with the session unchanged; once that pass is
\* made, every placement legal for Black is accepted.
C4_PassThenPlace ==
    /\ (IsAddStone /\ PreWhiteStuck) =>
          /\ last_call.arg.value = 0 =>
                /\ last_call.ret.tag = "true"
                /\ game.next_turn = Black
                /\ game.board = pre_game.board
                /\ move_history = Append(pre_history, 0)
          /\ IsPlacementCode =>
                last_call.ret.tag = "false" /\ SessionUnchanged
    /\ (IsAddStone /\ PreWhiteStuck /\ last_call.arg.value = 0) =>
          \A c \in 1..64 :
             IsLegal(game.board, Black, CodeRow(c), CodeCol(c)) =>
                add_stone(Current, c).ret.tag = "true"

\* White's pass accepted in such a position
C4_Witness ==
    /\ IsAddStone /\ PreWhiteStuck
    /\ last_call.arg.value = 0
    /\ last_call.ret.tag = "true"
    /\ game.next_turn = Black

\* neither colour has a legal placement on board
NoMoves(board) == ~HasLegal(board, Black) /\ ~HasLegal(board, White)

\* C5: is_game_over is true if and only if neither Black nor White has a
\* legal placement on the current board, and its value is the same whichever
\* colour is to move on that board.
C5_GameOverIffNoMoves ==
    /\ is_game_over(game) <=> NoMoves(game.board)
    /\ \A t \in Colour :
          is_game_over([board |-> game.board, next_turn |-> t]) = is_game_over(game)

\* a finished game reached by a call, with empty cells left on the board
C5_Witness ==
    /\ last_call.op # "new"
    /\ is_game_over(game)
    /\ \E i \in 0..(N * N - 1) : game.board[i] = Empty

\* C6: when neither colour has a legal placement, is_game_over reports true
\* and add_stone(c) returns false for every placement code c in 1..64.
C6_NoPlacementAfterEnd ==
    /\ NoMoves(game.board) => is_game_over(game)
    /\ (NoMoves(pre_game.board) /\ IsAddStone /\ IsPlacementCode) =>
          last_call.ret.tag = "false" /\ is_game_over(game)

\* a placement on an empty cell refused after the end of the game
C6_Witness ==
    /\ NoMoves(pre_game.board)
    /\ IsAddStone /\ IsPlacementCode
    /\ pre_game.board[last_call.arg.value - 1] = Empty
    /\ last_call.ret.tag = "false"
    /\ is_game_over(game)

\* C7: when ai_move is called and the player to move has no legal
\* placement, no strategy is invoked, the turn goes to the opponent with the
\* board unchanged, the pass code 0 is recorded, and the call returns the
\* pass code 0 if the opponent has a legal placement and None if not.
C7_AiForcedPass ==
    (IsAiMove /\ ~HasLegal(pre_game.board, PreMover)) =>
        /\ last_call.ai = NoAI
        /\ game.next_turn = Opponent(PreMover)
        /\ game.board = pre_game.board
        /\ move_history = Append(pre_history, 0)
        /\ last_call.ret = IF HasLegal(pre_game.board, Opponent(PreMover))
                           THEN Ret("Some", 0) ELSE Ret("None", 0)

\* a forced pass made by ai_move called with a positive strength, the
\* opponent being able to move
C7_Witness ==
    /\ IsAiMove /\ ~HasLegal(pre_game.board, PreMover)
    /\ last_call.arg.present /\ last_call.arg.value > 0
    /\ last_call.ret = Ret("Some", 0)
    /\ HasLegal(game.board, game.next_turn)

\* C8 as claimed: ai_move returns None whenever the player to move has no
\* legal placement.
C8_Original ==
    (IsAiMove /\ ~HasLegal(pre_game.board, PreMover)) => last_call.ret.tag = "None"

\* C8 amended: ai_move returns None exactly when the game is over (neither
\* colour has a legal placement); when only the player to move has none it
\* returns the pass code 0.
C8_NoneIffGameOver ==
    IsAiMove =>
        /\ (last_call.ret.tag = "None") <=> NoMoves(pre_game.board)
        /\ (/\ ~HasLegal(pre_game.board, PreMover)
            /\ HasLegal(pre_game.board, Opponent(PreMover))) =>
              last_call.ret = Ret("Some", 0)

\* ai_move called on a finished game
C8_Witness ==
    /\ IsAiMove
    /\ NoMoves(pre_game.board)
    /\ last_call.ret.tag = "None"

\* the strategy the strength argument of the last call selects
SelectedAI ==
    IF last_call.arg.present /\ last_call.arg.value > 0
    THEN [kind |-> "AlphaBetaAI", max_depth |-> last_call.arg.value]
    ELSE [kind |-> "RandomAI", max_depth |-> 0]

\* C9: when ai_move is called and the player to move has a legal placement,
\* then for every strength it returns a code c in 1..64 whose cell is a legal
\* placement of the player to move, the session becomes that move applied
\* (turn to the opponent), exactly c is appended to the history, and the
\* strategy invoked is alpha-beta at the given depth for a present positive
\* strength and the random strategy otherwise.
C9_AiPlacement ==
    (IsAiMove /\ HasLegal(pre_game.board, PreMover)) =>
        LET c == last_call.ret.code
        IN  /\ last_call.ret.tag = "Some"
            /\ c >= 1 /\ c <= 64
            /\ IsLegal(pre_game.board, PreMover, CodeRow(c), CodeCol(c))
            /\ PlacedAndFlipped(pre_game.board, game.board, PreMover,
                                CodeRow(c), CodeCol(c))
            /\ game.next_turn = Opponent(PreMover)
            /\ move_history = Append(pre_history, c)
            /\ last_call.ai = SelectedAI

\* a placement chosen by alpha-beta among several legal placements
C9_Witness ==
    /\ IsAiMove
    /\ last_call.arg.present /\ last_call.arg.value > 0
    /\ last_call.ai.kind = "AlphaBetaAI"
    /\ last_call.ret.tag = "Some" /\ last_call.ret.code >= 1
    /\ Len(ValidMoves(pre_game, PreMover)) >= 2
    /\ move_history = Append(pre_history, last_call.ret.code)

\* C10: add_stone with a code outside 0..=64 ends in the invalid-argument
\* error, not in a boolean, and leaves board, turn and history unchanged.
C10_OutOfRangeCode ==
    (IsAddStone /\ ~(last_call.arg.value >= 0 /\ last_call.arg.value <= 64)) =>
        last_call.ret.tag = "ValueError" /\ SessionUnchanged

\* a code outside 0..=64 refused where a pass would have been accepted
C10_Witness ==
    /\ IsAddStone /\ last_call.arg.value = 255
    /\ last_call.ret.tag = "ValueError"
    /\ ~HasLegal(pre_game.board, PreMover)
    /\ SessionUnchanged

\* C11: for every code in 0..=64 and acting colour, encoding the decoded
\* code gives the code back, where 0 decodes to a pass and c in 1..64 to
\* row = (c-1)/8, col = (c-1) mod 8, both in [0,8); and every cell (row, col)
\* of the board encodes to row*8+col+1, a value in 1..64 that fits the u8.
C11_CodecRoundTrip ==
    LET c == codec.origin_code
        m == codec.origin_mov.mv
    IN  /\ (codec.stage = "decoded" /\ c = 0) => codec.mov.tag = "None"
        /\ (codec.stage = "decoded" /\ c >= 1 /\ c <= 64) =>
              /\ codec.mov = SomeMove(Move(codec.player, (c - 1) \div 8, (c - 1) % 8))
              /\ OnBoard(codec.mov.mv.row, codec.mov.mv.col)
        /\ (codec.stage = "encoded" /\ c >= 0 /\ c <= 64) => codec.code = c
        /\ (codec.stage = "move_encoded" /\ codec.origin_mov.tag = "Some") =>
              /\ codec.code = m.row * 8 + m.col + 1
              /\ codec.code >= 1 /\ codec.code <= 64
              /\ m.row * 8 + m.col + 1 < U8
        /\ (codec.stage = "move_decoded") =>
              /\ codec.mov.tag = codec.origin_mov.tag
              /\ codec.mov.tag = "Some" => codec.mov.mv = m

\* the last code, 64, decoded to the corner (7, 7) and encoded back
C11_Witness ==
    /\ codec.stage = "encoded"
    /\ codec.origin_code = 64
    /\ codec.mov = SomeMove(Move(codec.player, 7, 7))
    /\ codec.code = 64

\* the last call appended a code to the history
Extended == Len(move_history) = Len(pre_history) + 1

\* the code the last call appended
LastCode == move_history[Len(move_history)]

NonEmptyCells(board) == {i \in 0..(N * N - 1) : board[i] # Empty}

\* C12: every call of add_stone or ai_move leaves the previous history as a
\* prefix of the new one and extends it by at most one code; every stored
\* code is in 0..=64, where 0 stands for a pass (board unchanged) and
\* c in 1..64 for the placement on the cell with row*8+col+1 = c.
C12_HistoryAppendOnly ==
    /\ Len(move_history) >= Len(pre_history)
    /\ Len(move_history) <= Len(pre_history) + 1
    /\ SubSeq(move_history, 1, Len(pre_history)) = pre_history
    /\ \A k \in 1..Len(move_history) : move_history[k] >= 0 /\ move_history[k] <= 64
    /\ Extended =>
          IF LastCode = 0 THEN game.board = pre_game.board
          ELSE /\ pre_game.board[LastCode - 1] = Empty
               /\ game.board[LastCode - 1] = PreMover
               /\ Get(game.board, CodeRow(LastCode), CodeCol(LastCode)) = PreMover

\* ai_move appending a placement code to a history that already has codes
C12_Witness ==
    /\ IsAiMove
    /\ Len(pre_history) >= 1
    /\ Extended
    /\ LastCode >= 1

\* C13: in every state reached by add_stone and ai_move calls, the black
\* score plus the white score is the number of non-empty cells of the board
\* and both scores are within [0, 64].
C13_ScoresCountStones ==
    LET s == scores(game)
    IN  /\ s[1] + s[2] = Cardinality(NonEmptyCells(game.board))
        /\ s[1] >= 0 /\ s[1] <= 64
        /\ s[2] >= 0 /\ s[2] <= 64

\* the scores after an accepted call that flipped stones to a lead of Black
C13_Witness ==
    /\ last_call.op # "new"
    /\ Extended /\ LastCode >= 1
    /\ scores(game)[1] + scores(game)[2] = Cardinality(NonEmptyCells(pre_game.board)) + 1
    /\ scores(game)[1] > scores(game)[2]
    /\ scores(game)[2] >= 1

\* C14: from the starting state, add_stone(20) is accepted and flips exactly
\* one white stone: afterwards the board holds 4 black stones and 1 white
\* stone, the scores are (4, 1), White is to move and the history is [20].
C14_OpeningMove ==
    (IsAddStone /\ last_call.arg.value = 20
       /\ pre_game = NewGame /\ pre_history = <<>>) =>
        /\ last_call.ret.tag = "true"
        /\ game.board[2 * N + 3] = Black
        /\ {i \in 0..(N * N - 1) : pre_game.board[i] = White /\ game.board[i] = Black}
              = {3 * N + 3}
        /\ CountOf(game.board, Black) = 4
        /\ CountOf(game.board, White) = 1
        /\ scores(game) = <<4, 1>>
        /\ game.next_turn = White
        /\ move_history = <<20>>

\* the opening move 20 made on the new session
C14_Witness ==
    /\ IsAddStone /\ last_call.arg.value = 20
    /\ pre_game = NewGame /\ pre_history = <<>>
    /\ move_history = <<20>>
    /\ game.next_turn = White

\* C16: in every state reached by add_stone and ai_move calls, calls made
\* after the end of the game included, Black is to move exactly when the
\* history has even length and White exactly when it has odd length: a call
\* that appends a code hands the turn over once, a call that appends nothing
\* leaves the turn where it was.
C16_TurnParity ==
    /\ (game.next_turn = Black) <=> (Len(move_history) % 2 = 0)
    /\ (game.next_turn = White) <=> (Len(move_history) % 2 = 1)
    /\ Extended => game.next_turn = Opponent(PreMover)
    /\ ~Extended => game.next_turn = PreMover /\ move_history = pre_history

\* a pass recorded by ai_move after the end of the game
C16_Witness ==
    /\ IsAiMove
    /\ ~HasLegal(pre_game.board, Black) /\ ~HasLegal(pre_game.board, White)
    /\ Extended /\ LastCode = 0
    /\ game.next_turn = Opponent(PreMover)

\* the history holds two pass codes in a row
DoublePass ==
    \E k \in 1..(Len(move_history) - 1) :
       move_history[k] = 0 /\ move_history[k + 1] = 0

\* C17: if the history contains two consecutive pass codes then is_game_over
\* is true; and while the game is not over, a pass is followed by a state in
\* which the player to move has a legal placement.
C17_DoublePassEndsGame ==
    /\ DoublePass => is_game_over(game)
    /\ (Extended /\ LastCode = 0 /\ ~is_game_over(game)) =>
          HasLegal(game.board, game.next_turn)

\* a second pass in a row, just recorded
C17_Witness ==
    /\ Extended /\ LastCode = 0
    /\ Len(pre_history) >= 1 /\ pre_history[Len(pre_history)] = 0
    /\ is_game_over(game)

\* C18: once is_game_over is true, a further call of add_stone or ai_move
\* with any argument leaves the board and the scores unchanged and
\* is_game_over true.
C18_GameOverAbsorbing ==
    is_game_over(pre_game) =>
        /\ game.board = pre_game.board
        /\ scores(game) = scores(pre_game)
        /\ is_game_over(game)

\* a call accepted after the end of the game
C18_Witness ==
    /\ last_call.op # "new"
    /\ is_game_over(pre_game)
    /\ Extended
    /\ is_game_over(game)

\* C20: in every state reached by add_stone and ai_move calls, submitting the
\* recorded history code by code through add_stone on a new session is
\* accepted at every step and ends in a session with the same board, the
\* same player to move and the same history.
C20_HistoryReplay ==
    LET s == ReplayChecked(NewSession, move_history, TRUE)
    IN  /\ s.accepted
        /\ s.game.board = game.board
        /\ s.game.next_turn = game.next_turn
        /\ s.move_history = move_history

\* a history whose last two codes were recorded by calls, the last one by
\* ai_move, one of them a pass
C20_Witness ==
    /\ IsAiMove /\ Extended
    /\ Grown = 2
    /\ \E k \in (Len(move_history) - 1)..Len(move_history) : move_history[k] = 0
    /\ \E k \in (Len(move_history) - 1)..Len(move_history) : move_history[k] # 0

\* greatest and least element of a non-empty set of integers
Greatest(S) == CHOOSE v \in S : \A w \in S : v >= w
Least(S) == CHOOSE v \in S : \A w \in S : v <= w

RECURSIVE FullMinimax(_, _, _)
\* the depth-limited minimax value of state for root with no pruning: every
\* candidate of every node is searched
FullMinimax(state, depth, root) ==
    IF depth = 0 THEN Evaluate(state.board, root)
    ELSE LET moves == ValidMoves(state, state.next_turn)
             values == {FullMinimax(Apply(state, moves[k]), depth - 1, root) :
                          k \in 1..Len(moves)}
         IN  IF moves # <<>>
             THEN IF state.next_turn = root THEN Greatest(values) ELSE Least(values)
             ELSE IF ValidMoves(state, Opponent(state.next_turn)) = <<>>
                  THEN Evaluate(state.board, root)
                  ELSE FullMinimax([state EXCEPT !.next_turn = Opponent(state.next_turn)],
                                   depth - 1, root)

\* the full minimax value of the candidate m of state, searched to max_depth
CandidateValue(state, m, max_depth) ==
    FullMinimax(Apply(state, m), max_depth - 1, state.next_turn)

\* the first candidate in row-major order whose full minimax value is greatest
FirstBest(state, max_depth) ==
    LET moves == ValidMoves(state, state.next_turn)
        best == Greatest({CandidateValue(state, moves[k], max_depth) :
                            k \in 1..Len(moves)})
        first == CHOOSE k \in 1..Len(moves) :
                    /\ CandidateValue(state, moves[k], max_depth) = best
                    /\ \A j \in 1..(k - 1) :
                          CandidateValue(state, moves[j], max_depth) < best
    IN  moves[first]

\* the last call ran AlphaBetaAI on a position with a legal move
SearchedByAlphaBeta ==
    /\ IsAiMove
    /\ last_call.arg.present /\ last_call.arg.value >= 1
    /\ HasLegal(pre_game.board, PreMover)

\* C15: on a state with at least one legal move and for every max_depth >= 1
\* the move AlphaBetaAI chooses is the first candidate in row-major order
\* among those whose full, unpruned depth-limited minimax value for the
\* acting colour is greatest: the value the pruned search returns for each
\* candidate is its full minimax value, and ties keep the first candidate.
C15_AlphaBetaIsFullMinimax ==
    SearchedByAlphaBeta =>
        LET max_depth == last_call.arg.value
            moves == ValidMoves(pre_game, PreMover)
            chosen == FirstBest(pre_game, max_depth)
        IN  /\ \A k \in 1..Len(moves) :
                  Minimax(Apply(pre_game, moves[k]), max_depth - 1,
                          NegInf, PosInf, PreMover)
                     = CandidateValue(pre_game, moves[k], max_depth)
            /\ AlphaBetaChoose(max_depth, pre_game) = SomeMove(chosen)
            /\ last_call.ret = Ret("Some", move_to_u8(SomeMove(chosen)))
            /\ game = Apply(pre_game, chosen)

\* a reply of the opponent, to some candidate, that the search cuts off: under
\* the window its earlier siblings leave, the pruned search returns for it
\* another value than its full minimax value
CutOff(state, max_depth) ==
    \E k \in 1..Len(ValidMoves(state, state.next_turn)) :
       LET after == Apply(state, ValidMoves(state, state.next_turn)[k])
           replies == ValidMoves(after, after.next_turn)
       IN  \E j \in 2..Len(replies) :
              LET beta == Least({FullMinimax(Apply(after, replies[i]),
                                             max_depth - 2, state.next_turn) :
                                   i \in 1..(j - 1)})
              IN  Minimax(Apply(after, replies[j]), max_depth - 2,
                          NegInf, beta, state.next_turn)
                     # FullMinimax(Apply(after, replies[j]), max_depth - 2,
                                   state.next_turn)

\* a search to depth 3 that cuts a reply off and in which two candidates
\* share the greatest value
C15_Witness ==
    /\ SearchedByAlphaBeta
    /\ last_call.arg.value = 3
    /\ last_call.ret.tag = "Some"
    /\ \E m \in {ValidMoves(pre_game, PreMover)[k] :
                    k \in 1..Len(ValidMoves(pre_game, PreMover))} :
          /\ m # FirstBest(pre_game, 3)
          /\ CandidateValue(pre_game, m, 3)
                = CandidateValue(pre_game, FirstBest(pre_game, 3), 3)
    /\ CutOff(pre_game, 3)

\* the last call was an ai_move that placed a stone
AiPlaced == IsAiMove /\ last_call.ret.tag = "Some" /\ last_call.ret.code # 0

\* the last call recorded a pass right after a recorded pass
SecondPassInARow ==
    /\ Extended /\ LastCode = 0
    /\ Len(pre_history) >= 1 /\ pre_history[Len(pre_history)] = 0

\* C19: play driven by repeated ai_move calls, with any strength arguments,
\* eventually reaches a state where is_game_over is true and ai_move has
\* returned None; on the way each placement raises the number of non-empty
\* cells, and a pass follows a pass only once the game is over.
C19_AiPlayTerminates ==
    /\ [](AiPlaced =>
            Cardinality(NonEmptyCells(game.board))
               > Cardinality(NonEmptyCells(pre_game.board)))
    /\ [](SecondPassInARow => is_game_over(pre_game))
    /\ <>(IsAiMove /\ last_call.ret.tag = "None" /\ is_game_over(game))

\* play that ended, by ai_move returning None, after a forced pass on the way
C19_Witness ==
    /\ IsAiMove /\ last_call.ret.tag = "None"
    /\ is_game_over(game)
    /\ \E k \in 1..(Len(move_history) - 1) : move_history[k] = 0
    /\ Cardinality(NonEmptyCells(game.board)) > Cardinality(NonEmptyCells(NewGame.board)) + 55

=============================================================================
